---- MODULE Spec2Model ----
(***************************************************************************)
(* ReportEngine/renderers: the adaptive PDF layout optimizer               *)
(* (pdf_layout_optimizer.py) and the renderer that drives it               *)
(* (pdf_renderer.py).                                                      *)
(*                                                                         *)
(* Representation choices:                                                 *)
(*  - a Python dict is a TLA+ function whose DOMAIN is the set of keys the *)
(*    dict holds, so a missing key is a key outside the DOMAIN and         *)
(*    dict.get(k, d) is Get(dict, k, d);                                   *)
(*  - a text is held by its character count (the code reads len() only);   *)
(*  - a float line height is held in tenths (1.6 is 16, 1.8 is 18);        *)
(*  - object identity of a returned config with respect to the optimizer's *)
(*    own config is held in `shared`: the sub-records that are one and the *)
(*    same Python object in both.                                          *)
(***************************************************************************)
EXTENDS Integers, Sequences, FiniteSets, TLC

VARIABLES
    config,            \* PDFLayoutOptimizer.config of the optimizer in use
    optimization_log,  \* PDFLayoutOptimizer.optimization_log
    call,              \* the last operation: its name, its inputs, the config before it
    returned,          \* the config the last optimize_for_document returned (or NoConfig)
    shared,            \* sub-records of `returned` that are the same object as in `config`
    log_entry,         \* the record the last _log_optimization built (or NoEntry)
    fs,                \* the file system: path -> file content or NoFile
    loaded,            \* outcome of the last load_config (or NoLoad)
    initial_config     \* the config the optimizer in use was constructed with

vars == <<config, optimization_log, call, returned, shared, log_entry, fs, loaded,
          initial_config>>

\* ------------------------------------------------------------------ bounds

MaxNodes == 4      \* nodes of a document tree, top-level sections included
MaxFiles == 1      \* distinct paths (and clock seconds naming the log files)
MaxKpiCount == 8   \* kpi_count of a statistics record given directly
MaxLength == 17    \* max_kpi_value_length of a statistics record given directly
MaxColumns == 8    \* max_table_columns of a statistics record given directly

\* ------------------------------------------------------------ LayoutConfig

SubRecords == {"page", "kpi_card", "callout", "table", "chart", "grid"}

Switches == {"auto_adjust_font_size", "auto_adjust_grid_columns",
             "prevent_orphan_headers", "optimize_for_print"}

KPICardLayout ==
    [font_size_value |-> 32, font_size_label |-> 14, font_size_change |-> 13,
     padding |-> 20, min_height |-> 120, value_max_length |-> 10]

CalloutLayout ==
    [font_size_title |-> 16, font_size_content |-> 14, padding |-> 20,
     line_height |-> 16, max_width |-> "100%"]

TableLayout ==
    [font_size_header |-> 13, font_size_body |-> 12, cell_padding |-> 12,
     max_cell_width |-> 200, overflow_strategy |-> "wrap"]

ChartLayout ==
    [font_size_title |-> 16, font_size_label |-> 12, min_height |-> 300,
     max_height |-> 600, padding |-> 20]

GridLayout ==
    [columns |-> 2, gap |-> 20, responsive_breakpoint |-> 768]

PageLayout ==
    [font_size_base |-> 14, font_size_h1 |-> 28, font_size_h2 |-> 24,
     font_size_h3 |-> 20, font_size_h4 |-> 16, line_height |-> 16,
     paragraph_spacing |-> 16, section_spacing |-> 32, page_padding |-> 40,
     max_content_width |-> 800]

\* The dataclass defaults of each sub-record class, by its field in PDFLayoutConfig.
ClassDefaults ==
    [page |-> PageLayout, kpi_card |-> KPICardLayout, callout |-> CalloutLayout,
     table |-> TableLayout, chart |-> ChartLayout, grid |-> GridLayout]

\* PDFLayoutConfig(page, kpi_card, callout, table, chart, grid, <switches>)
PDFLayoutConfig(page, kpi_card, callout, table, chart, grid, s1, s2, s3, s4) ==
    [page |-> page, kpi_card |-> kpi_card, callout |-> callout, table |-> table,
     chart |-> chart, grid |-> grid,
     auto_adjust_font_size |-> s1, auto_adjust_grid_columns |-> s2,
     prevent_orphan_headers |-> s3, optimize_for_print |-> s4]

CreateDefaultConfig ==
    PDFLayoutConfig(PageLayout, KPICardLayout, CalloutLayout, TableLayout,
                    ChartLayout, GridLayout, TRUE, TRUE, TRUE, TRUE)

\* A caller-built config: every field differs from the default.
CustomConfig ==
    PDFLayoutConfig(
        [font_size_base |-> 12, font_size_h1 |-> 26, font_size_h2 |-> 22,
         font_size_h3 |-> 18, font_size_h4 |-> 15, line_height |-> 15,
         paragraph_spacing |-> 12, section_spacing |-> 24, page_padding |-> 30,
         max_content_width |-> 700],
        [font_size_value |-> 24, font_size_label |-> 12, font_size_change |-> 11,
         padding |-> 16, min_height |-> 90, value_max_length |-> 8],
        [font_size_title |-> 15, font_size_content |-> 13, padding |-> 16,
         line_height |-> 15, max_width |-> "90%"],
        [font_size_header |-> 12, font_size_body |-> 11, cell_padding |-> 10,
         max_cell_width |-> 150, overflow_strategy |-> "ellipsis"],
        [font_size_title |-> 15, font_size_label |-> 11, min_height |-> 250,
         max_height |-> 500, padding |-> 16],
        [columns |-> 4, gap |-> 16, responsive_breakpoint |-> 600],
        FALSE, FALSE, FALSE, FALSE)

\* A config holding the values an earlier optimization pass assigns.
AdjustedConfig ==
    [CreateDefaultConfig EXCEPT
        !.kpi_card.font_size_value = 28, !.kpi_card.min_height = 100,
        !.grid.columns = 3,
        !.table.font_size_header = 11, !.table.font_size_body = 10,
        !.table.cell_padding = 8,
        !.page.line_height = 18, !.callout.line_height = 18,
        !.optimize_for_print = FALSE]

\* The configs an optimizer is constructed with: PDFLayoutOptimizer(config).
BaseConfigs == {CreateDefaultConfig, CustomConfig, AdjustedConfig}

NoConfig == [none |-> "config"]
NoEntry == [none |-> "entry"]
NoFile == [none |-> "file"]
NoLoad == [none |-> "load"]
NoDoc == [none |-> "document"]

\* dict.get(k, default)
Get(d, k, default) == IF k \in DOMAIN d THEN d[k] ELSE default

Max(a, b) == IF a >= b THEN a ELSE b

\* --------------------------------------------------------- document trees

\* Number of decimal digits of n >= 0.
RECURSIVE Digits(_)
Digits(n) == IF n < 10 THEN 1 ELSE 1 + Digits(n \div 10)

\* len(str(value)) for a KPI value: an int prints its digits (and a sign), a
\* text prints itself.
StrLen(value) ==
    IF "int" \in DOMAIN value
    THEN IF value.int < 0 THEN 1 + Digits(0 - value.int) ELSE Digits(value.int)
    ELSE value.str

\* KPI items: kpi.get('value', '') is an int, a text, or missing.
KpiItems ==
    [short |-> [label |-> "a", value |-> [int |-> 1234567890]],
     signed |-> [label |-> "b", value |-> [int |-> -1234567890]],
     long |-> [label |-> "c", value |-> [str |-> 16]],
     bare |-> [label |-> "d"]]

Headers(n) == [i \in 1..n |-> i]

\* The child nodes that hold no children of their own.
LeafNodes ==
    {[type |-> "kpi_grid", kpis |-> <<KpiItems.short, KpiItems.signed>>],
     [type |-> "kpi_grid", kpis |-> <<KpiItems.long, KpiItems.bare>>],
     [type |-> "kpi_grid"],
     [type |-> "table", headers |-> Headers(7), rows |-> Headers(2)],
     [type |-> "table", headers |-> Headers(6)],
     [type |-> "chart"],
     [type |-> "callout", content |-> 201],
     [type |-> "callout", content |-> 200],
     [type |-> "paragraph", text |-> 501],
     [type |-> "paragraph", text |-> 400],
     [type |-> "list", items |-> 3]}

\* Forests(n): the sequences of nodes holding exactly n nodes in all.
\* ForestsFrom(n, k): those whose first node holds k nodes or more; a node of
\* k nodes is a leaf (k = 1) or a section over a sequence of k - 1 nodes.
RECURSIVE Forests(_), ForestsFrom(_, _)
ForestsFrom(n, k) ==
    IF k > n THEN {}
    ELSE {<<nd>> \o rest :
            nd \in (IF k = 1 THEN LeafNodes ELSE {})
                   \cup {[type |-> "section", children |-> ch] : ch \in Forests(k - 1)},
            rest \in Forests(n - k)}
         \cup ForestsFrom(n, k + 1)

Forests(n) == IF n = 0 THEN {<<>>} ELSE ForestsFrom(n, 1)

\* SectionLists(n): the sequences of top-level sections holding exactly n
\* nodes in all.  SectionListsFrom(n, k): those whose first section holds
\* k - 1 nodes or more.
RECURSIVE SectionLists(_), SectionListsFrom(_, _)
SectionListsFrom(n, k) ==
    IF k > n THEN {}
    ELSE {<<[title |-> "s", children |-> ch]>> \o rest :
            ch \in Forests(k - 1), rest \in SectionLists(n - k)}
         \cup SectionListsFrom(n, k + 1)

SectionLists(n) == IF n = 0 THEN {<<>>} ELSE SectionListsFrom(n, 1)

\* The sequences of top-level sections holding at most n nodes in all.
RECURSIVE SectionListsUpTo(_)
SectionListsUpTo(n) ==
    IF n = 0 THEN SectionLists(0) ELSE SectionLists(n) \cup SectionListsUpTo(n - 1)

\* The document IRs given to the optimizer: a 'sections' list of at most
\* MaxNodes nodes, or no 'sections' key at all.
Documents ==
    {[sections |-> s] : s \in SectionListsUpTo(MaxNodes)}
    \cup {[metadata |-> "m"]}

\* ------------------------------------------------------- DocumentAnalyzer

\* The statistics record _analyze_document starts from.
InitialStats ==
    [kpi_count |-> 0, table_count |-> 0, chart_count |-> 0, callout_count |-> 0,
     max_kpi_value_length |-> 0, max_table_columns |-> 0, max_table_rows |-> 0,
     total_content_length |-> 0, has_long_text |-> FALSE]

\* The loop over the KPI items of a kpi_grid: the longest str(value).
RECURSIVE MaxValueLength(_, _, _)
MaxValueLength(kpis, i, longest) ==
    IF i > Len(kpis) THEN longest
    ELSE MaxValueLength(kpis, i + 1,
            Max(longest, StrLen(Get(kpis[i], "value", [str |-> 0]))))

\* A long-text test on the running total instead of the paragraph's own text.
LongTextAfterParagraphCumulative(stats, text) ==
    IF stats.total_content_length + text > 500 THEN TRUE ELSE stats.has_long_text

\* Lines 265-266: has_long_text after a paragraph of `text` characters.
LongTextAfterParagraph(stats, text) ==
    IF text > 500 THEN TRUE ELSE stats.has_long_text

\* The if/elif chain of _analyze_section on one child.
AnalyzeChild(child, stats) ==
    LET node_type == Get(child, "type", "None") IN
    CASE node_type = "kpi_grid" ->
            LET kpis == Get(child, "kpis", <<>>) IN
            [stats EXCEPT
                !.kpi_count = @ + Len(kpis),
                !.max_kpi_value_length = MaxValueLength(kpis, 1, @)]
      [] node_type = "table" ->
            [stats EXCEPT
                !.table_count = @ + 1,
                !.max_table_columns = Max(@, Len(Get(child, "headers", <<>>))),
                !.max_table_rows = Max(@, Len(Get(child, "rows", <<>>)))]
      [] node_type = "chart" ->
            [stats EXCEPT !.chart_count = @ + 1]
      [] node_type = "callout" ->
            [stats EXCEPT
                !.callout_count = @ + 1,
                !.has_long_text = IF Get(child, "content", 0) > 200 THEN TRUE ELSE @]
      [] node_type = "paragraph" ->
            [stats EXCEPT
                !.total_content_length = @ + Get(child, "text", 0),
                !.has_long_text = LongTextAfterParagraph(stats, Get(child, "text", 0))]
      [] OTHER -> stats

\* A walk that does not descend into nested sections.
RECURSIVE AnalyzeSectionFlat(_, _)
AnalyzeSectionFlat(section, stats) ==
    LET children == Get(section, "children", <<>>) IN
    IF children = <<>> THEN stats
    ELSE AnalyzeSectionFlat([children |-> Tail(children)],
                            AnalyzeChild(Head(children), stats))

\* _analyze_section: the children in order, a nested section recursively.
RECURSIVE AnalyzeSection(_, _)
AnalyzeSection(section, stats) ==
    LET children == Get(section, "children", <<>>)
        RECURSIVE Loop(_, _)
        Loop(i, st) ==
            IF i > Len(children) THEN st
            ELSE LET child == children[i]
                     st1 == AnalyzeChild(child, st)
                 IN  Loop(i + 1,
                          IF Get(child, "type", "None") = "section"
                          THEN AnalyzeSection(child, st1)
                          ELSE st1)
    IN  Loop(1, stats)

\* _analyze_document: every element of 'sections' is walked as a section.
RECURSIVE AnalyzeSections(_, _, _)
AnalyzeSections(sections, i, stats) ==
    IF i > Len(sections) THEN stats
    ELSE AnalyzeSections(sections, i + 1, AnalyzeSection(sections[i], stats))

AnalyzeDocument(document_ir) ==
    AnalyzeSections(Get(document_ir, "sections", <<>>), 1, InitialStats)

\* --------------------------------------------------------- ConfigAdjuster

\* dataclasses.asdict(obj): the fields of the object as a dict.
AsDict(obj) == [f \in DOMAIN obj |-> obj[f]]

\* cls(**kwargs) of a sub-record dataclass: a field not given takes the class
\* default (an unknown keyword is a TypeError, see ConstructOk).
Construct(sub, kwargs) ==
    [f \in DOMAIN ClassDefaults[sub] |-> Get(kwargs, f, ClassDefaults[sub][f])]

ConstructOk(sub, kwargs) == DOMAIN kwargs \subseteq DOMAIN ClassDefaults[sub]

\* A copy that hands over the base's sub-record objects instead of new ones.
CopyConfigShallow(base) == [cfg |-> base, shared |-> SubRecords]

\* Lines 277-288: a new PDFLayoutConfig over six newly constructed sub-records,
\* the switches copied by value. No sub-record object is shared with the base.
CopyConfig(base) ==
    [cfg |-> PDFLayoutConfig(
                Construct("page", AsDict(base.page)),
                Construct("kpi_card", AsDict(base.kpi_card)),
                Construct("callout", AsDict(base.callout)),
                Construct("table", AsDict(base.table)),
                Construct("chart", AsDict(base.chart)),
                Construct("grid", AsDict(base.grid)),
                base.auto_adjust_font_size, base.auto_adjust_grid_columns,
                base.prevent_orphan_headers, base.optimize_for_print),
     shared |-> {}]

\* config.<sub>.<field> = value, on a heap h = [cfg, base, shared, log]: the
\* assignment reaches the base too when the sub-record is one shared object.
SetField(h, sub, field, value) ==
    [h EXCEPT
        !.cfg[sub][field] = value,
        !.base[sub][field] = IF sub \in h.shared THEN value ELSE @]

\* self.optimization_log.append(description)
LogAppend(h, description) == [h EXCEPT !.log = Append(@, description)]

\* The two font thresholds tested strictest first.
AdjustKpiFontStrictestFirst(h, stats) ==
    IF stats.max_kpi_value_length > 15
    THEN LogAppend(SetField(h, "kpi_card", "font_size_value", 24),
                   [rule |-> "kpi_font", stat |-> stats.max_kpi_value_length,
                    text |-> "32->24"])
    ELSE IF stats.max_kpi_value_length > 10
    THEN LogAppend(SetField(h, "kpi_card", "font_size_value", 28),
                   [rule |-> "kpi_font", stat |-> stats.max_kpi_value_length,
                    text |-> "32->28"])
    ELSE h

\* Lines 291-302: the KPI value font size. The elif is reached only when the
\* first test fails.
AdjustKpiFont(h, stats) ==
    IF stats.max_kpi_value_length > 10
    THEN LogAppend(SetField(h, "kpi_card", "font_size_value", 28),
                   [rule |-> "kpi_font", stat |-> stats.max_kpi_value_length,
                    text |-> "32->28"])
    ELSE IF stats.max_kpi_value_length > 15
    THEN LogAppend(SetField(h, "kpi_card", "font_size_value", 24),
                   [rule |-> "kpi_font", stat |-> stats.max_kpi_value_length,
                    text |-> "32->24"])
    ELSE h

\* The grid thresholds off by one: three columns from 6 KPIs on.
AdjustGridFromSix(h, stats) ==
    IF stats.kpi_count >= 6
    THEN LogAppend(SetField(SetField(h, "grid", "columns", 3),
                            "kpi_card", "min_height", 100),
                   [rule |-> "grid_columns", stat |-> stats.kpi_count,
                    text |-> "2->3"])
    ELSE IF stats.kpi_count <= 2
    THEN LogAppend(SetField(h, "grid", "columns", 1),
                   [rule |-> "grid_columns", stat |-> stats.kpi_count,
                    text |-> "2->1"])
    ELSE h

\* Lines 305-317: the grid columns.
AdjustGrid(h, stats) ==
    IF stats.kpi_count > 6
    THEN LogAppend(SetField(SetField(h, "grid", "columns", 3),
                            "kpi_card", "min_height", 100),
                   [rule |-> "grid_columns", stat |-> stats.kpi_count,
                    text |-> "2->3"])
    ELSE IF stats.kpi_count <= 2
    THEN LogAppend(SetField(h, "grid", "columns", 1),
                   [rule |-> "grid_columns", stat |-> stats.kpi_count,
                    text |-> "2->1"])
    ELSE h

\* The table threshold off by one: shrinking from 6 columns on.
AdjustTableFromSix(h, stats) ==
    IF stats.max_table_columns >= 6
    THEN LogAppend(SetField(SetField(SetField(h, "table", "font_size_header", 11),
                                     "table", "font_size_body", 10),
                            "table", "cell_padding", 8),
                   [rule |-> "table_shrink", stat |-> stats.max_table_columns,
                    text |-> "shrink"])
    ELSE h

\* Lines 320-327: the table fonts and padding.
AdjustTable(h, stats) ==
    IF stats.max_table_columns > 6
    THEN LogAppend(SetField(SetField(SetField(h, "table", "font_size_header", 11),
                                     "table", "font_size_body", 10),
                            "table", "cell_padding", 8),
                   [rule |-> "table_shrink", stat |-> stats.max_table_columns,
                    text |-> "shrink"])
    ELSE h

\* Lines 330-335: the line heights (1.8 is 18 tenths).
AdjustLineHeight(h, stats) ==
    IF stats.has_long_text
    THEN LogAppend(SetField(SetField(h, "page", "line_height", 18),
                            "callout", "line_height", 18),
                   [rule |-> "long_text", stat |-> 0, text |-> "1.8"])
    ELSE h

\* _adjust_config_based_on_stats on an optimizer holding `base` and `log`:
\* [cfg: the config returned, base: self.config afterwards, shared, log].
AdjustConfigBasedOnStats(base, log, stats) ==
    LET copy == CopyConfig(base)
        h0 == [cfg |-> copy.cfg, base |-> base, shared |-> copy.shared, log |-> log]
    IN  AdjustLineHeight(AdjustTable(AdjustGrid(AdjustKpiFont(h0, stats), stats),
                                     stats), stats)

\* PDFLayoutConfig.to_dict: the six sub-records through asdict, the switches.
ToDict(cfg) ==
    [page |-> AsDict(cfg.page), kpi_card |-> AsDict(cfg.kpi_card),
     callout |-> AsDict(cfg.callout), table |-> AsDict(cfg.table),
     chart |-> AsDict(cfg.chart), grid |-> AsDict(cfg.grid),
     auto_adjust_font_size |-> cfg.auto_adjust_font_size,
     auto_adjust_grid_columns |-> cfg.auto_adjust_grid_columns,
     prevent_orphan_headers |-> cfg.prevent_orphan_headers,
     optimize_for_print |-> cfg.optimize_for_print]

\* A _log_optimization that leaves the accumulator as it is.
LogOptimizationKeep(stats, cfg, log, now) ==
    [entry |-> [timestamp |-> now, document_stats |-> stats,
                optimizations |-> log, final_config |-> ToDict(cfg)],
     log |-> log]

\* _log_optimization: the entry built from a copy of the accumulator, and the
\* accumulator cleared.
LogOptimization(stats, cfg, log, now) ==
    [entry |-> [timestamp |-> now, document_stats |-> stats,
                optimizations |-> log, final_config |-> ToDict(cfg)],
     log |-> <<>>]

\* Lines 180-185 of optimize_for_document, from the statistics on:
\* [config: the value returned, base, shared, log, entry, stats].
OptimizeForStats(base, log, stats, now) ==
    LET h == AdjustConfigBasedOnStats(base, log, stats)
        l == LogOptimization(stats, h.cfg, h.log, now)
    IN  [config |-> h.cfg, base |-> h.base, shared |-> h.shared,
         log |-> l.log, entry |-> l.entry, stats |-> stats]

\* optimize_for_document on an optimizer holding `base` and `log`.
OptimizeForDocumentResult(base, log, document_ir, now) ==
    OptimizeForStats(base, log, AnalyzeDocument(document_ir), now)

\* ------------------------------------------------------ ConfigPersistence

\* The config fields that hold a str; every other sub-record field is a number.
StringFields == {"max_width", "overflow_strategy"}

\* json.dump of a to_dict() dict: each sub-record an object of string and number
\* members, each switch a true/false literal.
JsonEncodeConfig(d) ==
    [k \in DOMAIN d |->
        IF k \in SubRecords
        THEN [f \in DOMAIN d[k] |->
                IF f \in StringFields THEN [string |-> d[k][f]]
                                      ELSE [number |-> d[k][f]]]
        ELSE [literal |-> d[k]]]

\* json.dump of a _log_optimization entry.
JsonEncodeEntry(e) ==
    [timestamp |-> [string |-> e.timestamp],
     document_stats |->
        [k \in DOMAIN e.document_stats |->
            IF k = "has_long_text" THEN [literal |-> e.document_stats[k]]
                                   ELSE [number |-> e.document_stats[k]]],
     optimizations |->
        [array |-> [i \in 1..Len(e.optimizations) |-> [string |-> e.optimizations[i]]]],
     final_config |-> JsonEncodeConfig(e.final_config)]

\* json.load: a JSON value back to the Python value.
RECURSIVE JsonDecode(_)
JsonDecode(j) ==
    CASE DOMAIN j = {"number"} -> j.number
      [] DOMAIN j = {"string"} -> j.string
      [] DOMAIN j = {"literal"} -> j.literal
      [] DOMAIN j = {"array"} -> [i \in 1..Len(j.array) |-> JsonDecode(j.array[i])]
      [] OTHER -> [k \in DOMAIN j |-> JsonDecode(j[k])]

\* save_config: the text written for an optimizer holding `cfg`; log_entry is
\* NoEntry for None (`if log_entry:` leaves the key out).
SaveConfigData(cfg, entry) ==
    IF entry = NoEntry
    THEN [config |-> JsonEncodeConfig(ToDict(cfg))]
    ELSE [config |-> JsonEncodeConfig(ToDict(cfg)),
          optimization_log |-> JsonEncodeEntry(entry)]

\* A written file: the JSON text, who wrote it, and (for save_config) the
\* config object it was written from.
SavedFile(cfg, entry) ==
    [json |-> SaveConfigData(cfg, entry), writer |-> "save_config", source |-> cfg]

\* The order in which from_dict reads the sub-records.
SubRecordOrder == <<"page", "kpi_card", "callout", "table", "chart", "grid">>

\* The first failure of from_dict reading data[sub] for sub = order[i..]:
\* a KeyError for a missing sub-record, a TypeError for an unknown field.
RECURSIVE FromDictError(_, _)
FromDictError(data, i) ==
    IF i > Len(SubRecordOrder) THEN "none"
    ELSE IF SubRecordOrder[i] \notin DOMAIN data THEN "KeyError"
    ELSE IF ~ConstructOk(SubRecordOrder[i], data[SubRecordOrder[i]]) THEN "TypeError"
    ELSE FromDictError(data, i + 1)

\* A from_dict that fills a missing sub-record with the class defaults.
FromDictLenient(data) ==
    [error |-> "none",
     config |-> PDFLayoutConfig(
        Construct("page", Get(data, "page", <<>>)),
        Construct("kpi_card", Get(data, "kpi_card", <<>>)),
        Construct("callout", Get(data, "callout", <<>>)),
        Construct("table", Get(data, "table", <<>>)),
        Construct("chart", Get(data, "chart", <<>>)),
        Construct("grid", Get(data, "grid", <<>>)),
        Get(data, "auto_adjust_font_size", TRUE),
        Get(data, "auto_adjust_grid_columns", TRUE),
        Get(data, "prevent_orphan_headers", TRUE),
        Get(data, "optimize_for_print", TRUE))]

\* A from_dict that does not read the switches of the file.
FromDictSwitchesUnread(data) ==
    IF FromDictError(data, 1) # "none"
    THEN [error |-> FromDictError(data, 1), config |-> NoConfig]
    ELSE [error |-> "none",
          config |-> PDFLayoutConfig(
            Construct("page", data.page),
            Construct("kpi_card", data.kpi_card),
            Construct("callout", data.callout),
            Construct("table", data.table),
            Construct("chart", data.chart),
            Construct("grid", data.grid),
            TRUE, TRUE, TRUE, TRUE)]

\* PDFLayoutConfig.from_dict: [error, config].
FromDict(data) ==
    IF FromDictError(data, 1) # "none"
    THEN [error |-> FromDictError(data, 1), config |-> NoConfig]
    ELSE [error |-> "none",
          config |-> PDFLayoutConfig(
            Construct("page", data.page),
            Construct("kpi_card", data.kpi_card),
            Construct("callout", data.callout),
            Construct("table", data.table),
            Construct("chart", data.chart),
            Construct("grid", data.grid),
            Get(data, "auto_adjust_font_size", TRUE),
            Get(data, "auto_adjust_grid_columns", TRUE),
            Get(data, "prevent_orphan_headers", TRUE),
            Get(data, "optimize_for_print", TRUE))]

\* load_config of a path holding `file`: [outcome, error, config, path].
\* outcome "default": no file, cls(); "loaded": cls(config); "raised": no
\* optimizer is returned.
LoadConfigResult(file, path) ==
    IF file = NoFile
    THEN [outcome |-> "default", error |-> "none", config |-> CreateDefaultConfig,
          path |-> path]
    ELSE LET data == JsonDecode(file.json) IN
         IF "config" \notin DOMAIN data
         THEN [outcome |-> "raised", error |-> "KeyError", config |-> NoConfig,
               path |-> path]
         ELSE LET r == FromDict(data.config) IN
              [outcome |-> IF r.error = "none" THEN "loaded" ELSE "raised",
               error |-> r.error, config |-> r.config, path |-> path]

\* f without the key k.
Without(f, k) == [x \in DOMAIN f \ {k} |-> f[x]]

\* Files written by something other than save_config: a saved CustomConfig
\* with one sub-record, one switch or one field left out, with a field the
\* dataclass does not know, with a value no dataclass default or adjustment
\* rule produces (zero columns, an overflow strategy named "clip"), or with no
\* 'config' object.
ExternalFiles ==
    LET full == JsonEncodeConfig(ToDict(CustomConfig)) IN
    {[json |-> [config |-> Without(full, k)], writer |-> "external"] :
        k \in SubRecords \cup Switches}
    \cup {[json |-> [config |-> [full EXCEPT !.grid = Without(@, "columns")]],
           writer |-> "external"],
          [json |-> [config |-> [full EXCEPT !.table =
                        [f \in DOMAIN @ \cup {"border"} |->
                            IF f = "border" THEN [number |-> 1] ELSE @[f]]]],
           writer |-> "external"],
          [json |-> [config |-> [full EXCEPT !.grid.columns = [number |-> 0]]],
           writer |-> "external"],
          [json |-> [config |-> [full EXCEPT !.table.overflow_strategy =
                                                [string |-> "clip"]]],
           writer |-> "external"],
          [json |-> [settings |-> full], writer |-> "external"]}

\* ---------------------------------------------------- StylesheetGenerator

\* generate_pdf_css: the stylesheet as the values interpolated into it.
GeneratePdfCss(cfg) ==
    [body |-> <<cfg.page.font_size_base, cfg.page.line_height>>,
     main |-> <<cfg.page.page_padding, cfg.page.max_content_width>>,
     headings |-> <<cfg.page.font_size_h1, cfg.page.font_size_h2,
                    cfg.page.font_size_h3, cfg.page.font_size_h4>>,
     spacing |-> <<cfg.page.paragraph_spacing, cfg.page.section_spacing>>,
     kpi_grid |-> <<cfg.grid.columns, cfg.grid.gap>>,
     kpi_card |-> <<cfg.kpi_card.padding, cfg.kpi_card.min_height,
                    cfg.kpi_card.font_size_value, cfg.kpi_card.font_size_label,
                    cfg.kpi_card.font_size_change>>,
     callout |-> <<cfg.callout.padding, cfg.callout.line_height,
                   cfg.callout.font_size_title, cfg.callout.font_size_content>>,
     table |-> <<cfg.table.font_size_header, cfg.table.cell_padding,
                 cfg.table.font_size_body, cfg.table.max_cell_width>>,
     chart |-> <<cfg.chart.min_height, cfg.chart.max_height, cfg.chart.padding,
                 cfg.chart.font_size_title>>]

\* ----------------------------------------------------------------- inputs

\* The paths of the file system. A log file of _get_pdf_html is named by the
\* clock second, so the seconds of the clock are these paths too.
Paths == 1..MaxFiles

\* n KPI items, the first with an 11-character value.
Kpis(n) == [i \in 1..n |-> IF i = 1 THEN KpiItems.signed ELSE KpiItems.short]

\* The documents rendered. Seven KPIs (one value of 11 characters) over two
\* sections, a 7-column table and a 201-character callout: every rule fires.
SevenKpiDocument ==
    [sections |-> <<
        [children |-> <<[type |-> "kpi_grid", kpis |-> Kpis(4)],
                        [type |-> "callout", content |-> 201]>>],
        [children |-> <<[type |-> "kpi_grid", kpis |-> Tail(Kpis(4))],
                        [type |-> "table", headers |-> Headers(7)]>>]>>]

\* Four KPIs with 10-character values: no rule fires.
FourKpiDocument ==
    [sections |-> <<[children |-> <<[type |-> "kpi_grid", kpis |-> Tail(Kpis(5))]>>]>>]

\* Two KPIs, a 7-column table two sections deep and a 501-character
\* paragraph: the grid, table and long-text rules fire.
NestedTableDocument ==
    [sections |-> <<[children |-> <<
        [type |-> "kpi_grid", kpis |-> Tail(Kpis(3))],
        [type |-> "section", children |-> <<
            [type |-> "section", children |-> <<
                [type |-> "table", headers |-> Headers(7), rows |-> Headers(2)]>>]>>],
        [type |-> "paragraph", text |-> 501]>>]>>]

SampleDocuments == {SevenKpiDocument, FourKpiDocument, NestedTableDocument}

\* Statistics records given to the adjuster directly.
StatsRecords ==
    {[InitialStats EXCEPT !.kpi_count = k, !.max_kpi_value_length = l,
                          !.max_table_columns = c, !.has_long_text = t] :
        k \in 0..MaxKpiCount, l \in 0..MaxLength, c \in 0..MaxColumns,
        t \in BOOLEAN}

\* What a caller assigns to a field of a config it was handed.
Mutations ==
    {[sub |-> "grid", field |-> "columns", value |-> 5],
     [sub |-> "page", field |-> "line_height", value |-> 20]}

\* ---------------------------------------------------------------- actions

\* PDFLayoutOptimizer(config), no file written yet.
Constructed ==
    /\ config \in BaseConfigs
    /\ initial_config = config
    /\ optimization_log = <<>>
    /\ returned = NoConfig
    /\ shared = {}
    /\ log_entry = NoEntry
    /\ fs = [p \in Paths |-> NoFile]
    /\ loaded = NoLoad

Init ==
    /\ Constructed
    /\ call = [name |-> "init"]

\* The state after a call whose outcome is r (see OptimizeForStats).
Optimized(r, name, document_ir) ==
    /\ config' = r.base
    /\ optimization_log' = r.log
    /\ returned' = r.config
    /\ shared' = r.shared
    /\ log_entry' = r.entry
    /\ call' = [name |-> name, document |-> document_ir, stats |-> r.stats,
                before |-> config]
    /\ loaded' = NoLoad
    /\ UNCHANGED <<fs, initial_config>>

\* optimizer.optimize_for_document(document_ir)
OptimizeForDocument(document_ir, now) ==
    Optimized(OptimizeForDocumentResult(config, optimization_log, document_ir, now),
              "optimize_for_document", document_ir)

\* The adjustment and logging of optimize_for_document (lines 180-185) on a
\* statistics record.
OptimizeStats(stats, now) ==
    Optimized(OptimizeForStats(config, optimization_log, stats, now),
              "optimize_for_document", NoDoc)

\* The caller assigns to a field of the config optimize_for_document returned.
MutateReturned(m) ==
    /\ returned # NoConfig
    /\ returned' = [returned EXCEPT ![m.sub][m.field] = m.value]
    /\ config' = IF m.sub \in shared
                 THEN [config EXCEPT ![m.sub][m.field] = m.value]
                 ELSE config
    /\ call' = [name |-> "mutate_returned", before |-> config]
    /\ loaded' = NoLoad
    /\ UNCHANGED <<optimization_log, shared, log_entry, fs, initial_config>>

\* PDFRenderer._get_pdf_html(document_ir, optimize_layout) at clock second now.
GetPdfHtml(document_ir, optimize_layout, now) ==
    IF optimize_layout
    THEN LET r == OptimizeForDocumentResult(config, optimization_log,
                                            document_ir, now)
             l == LogOptimization(AnalyzeDocument(document_ir), r.config, r.log, now)
         IN  /\ config' = r.config
             /\ optimization_log' = l.log
             /\ log_entry' = l.entry
             /\ fs' = [fs EXCEPT ![now] = SavedFile(r.config, l.entry)]
             /\ call' = [name |-> "_get_pdf_html", document |-> document_ir,
                         optimize_layout |-> TRUE, stats |-> r.stats,
                         before |-> config, pass |-> r.entry, log_file |-> now,
                         css |-> GeneratePdfCss(r.config)]
             /\ returned' = NoConfig
             /\ shared' = {}
             /\ loaded' = NoLoad
             /\ UNCHANGED initial_config
    ELSE /\ call' = [name |-> "_get_pdf_html", document |-> document_ir,
                     optimize_layout |-> FALSE, before |-> config,
                     css |-> GeneratePdfCss(config)]
         /\ returned' = NoConfig
         /\ shared' = {}
         /\ loaded' = NoLoad
         /\ UNCHANGED <<config, optimization_log, log_entry, fs, initial_config>>

\* optimizer.save_config(path, log_entry): log_entry None, or the entry held.
SaveConfig(path, entry) ==
    /\ fs' = [fs EXCEPT ![path] = SavedFile(config, entry)]
    /\ call' = [name |-> "save_config", path |-> path, before |-> config]
    /\ returned' = NoConfig
    /\ shared' = {}
    /\ loaded' = NoLoad
    /\ UNCHANGED <<config, optimization_log, log_entry, initial_config>>

\* PDFLayoutOptimizer.load_config(path)
LoadConfig(path) ==
    /\ loaded' = LoadConfigResult(fs[path], path)
    /\ call' = [name |-> "load_config", path |-> path, before |-> config]
    /\ returned' = NoConfig
    /\ shared' = {}
    /\ UNCHANGED <<config, optimization_log, log_entry, fs, initial_config>>

\* Something other than save_config writes a file.
ExternalWrite(path, file) ==
    /\ fs' = [fs EXCEPT ![path] = file]
    /\ call' = [name |-> "external_write", path |-> path, before |-> config]
    /\ returned' = NoConfig
    /\ shared' = {}
    /\ loaded' = NoLoad
    /\ UNCHANGED <<config, optimization_log, log_entry, initial_config>>

Next ==
    \/ \E d \in SampleDocuments, now \in Paths : OptimizeForDocument(d, now)
    \/ \E m \in Mutations : MutateReturned(m)
    \/ \E d \in SampleDocuments, o \in BOOLEAN, now \in Paths : GetPdfHtml(d, o, now)

\* The optimizer called directly and through the renderer, over the sample
\* documents.
Spec == Init /\ [][Next]_vars

NextPersist ==
    \/ \E now \in Paths : GetPdfHtml(NestedTableDocument, TRUE, now)
    \/ \E p \in Paths, e \in {NoEntry, log_entry} : SaveConfig(p, e)
    \/ \E p \in Paths : LoadConfig(p)
    \/ \E p \in Paths, f \in ExternalFiles : ExternalWrite(p, f)

\* Saving and loading configs, next to a renderer that saves its own.
SpecPersist == Init /\ [][NextPersist]_vars

\* An optimizer about to be given one document or one statistics record.
InitOptimize ==
    /\ Constructed
    /\ call \in {[name |-> "pending", document |-> d] : d \in Documents}
                \cup {[name |-> "pending", stats |-> s] : s \in StatsRecords}

NextOptimize ==
    \/ /\ call.name = "pending"
       /\ "document" \in DOMAIN call
       /\ \E now \in Paths : OptimizeForDocument(call.document, now)
    \/ /\ call.name = "pending"
       /\ "stats" \in DOMAIN call
       /\ \E now \in Paths : OptimizeStats(call.stats, now)

\* The optimizer alone, over every bounded document and statistics record.
SpecOptimize == InitOptimize /\ [][NextOptimize]_vars

\* ------------------------------------------------------------ properties

RuleOrder == <<"kpi_font", "grid_columns", "table_shrink", "long_text">>

\* The triggering condition of each rule group of the adjuster.
RuleFires(rule, stats) ==
    CASE rule = "kpi_font" -> stats.max_kpi_value_length > 10
      [] rule = "grid_columns" -> stats.kpi_count > 6 \/ stats.kpi_count <= 2
      [] rule = "table_shrink" -> stats.max_table_columns > 6
      [] rule = "long_text" -> stats.has_long_text

\* The rule groups that fire for a statistics record, in rule order.
FiredRules(stats) == SelectSeq(RuleOrder, LAMBDA r : RuleFires(r, stats))

\* The rule group of each description of an adjustment list.
RulesOf(optimizations) ==
    [i \in 1..Len(optimizations) |-> optimizations[i].rule]

\* C1: the adjustment list built inside each optimize_for_document call (a
\* direct call, or the one _get_pdf_html makes) names exactly the rule groups
\* whose condition holds for that call's document, once each and in rule
\* order, with nothing left from an earlier call; and the accumulator of the
\* instance is empty when the call returns.
C1_AdjustmentListPerCall ==
    /\ call.name = "optimize_for_document" =>
        /\ RulesOf(log_entry.optimizations) = FiredRules(call.stats)
        /\ optimization_log = <<>>
    /\ (call.name = "_get_pdf_html" /\ call.optimize_layout) =>
        /\ RulesOf(call.pass.optimizations) = FiredRules(call.stats)
        /\ optimization_log = <<>>

\* A direct call whose three rules fired, on an optimizer whose config an
\* earlier pass has already adjusted (font size 28 is not a constructed value
\* of a config with optimize_for_print set).
C1_Witness ==
    /\ call.name = "optimize_for_document"
    /\ call.document = NestedTableDocument
    /\ RulesOf(log_entry.optimizations) = <<"grid_columns", "table_shrink", "long_text">>
    /\ config.kpi_card.font_size_value = 28
    /\ config.optimize_for_print

\* The optimization record of the file _get_pdf_html wrote.
SavedRecord == JsonDecode(fs[call.log_file].json).optimization_log

\* C2: after _get_pdf_html with optimize_layout=True the record saved next to
\* the config holds the statistics of the document, the resulting config, and
\* the adjustment descriptions of the rules that fired in that pass, so a
\* non-empty list whenever a rule fired.
C2_SavedRecordHoldsAdjustments ==
    (call.name = "_get_pdf_html" /\ call.optimize_layout) =>
        /\ SavedRecord.document_stats = call.stats
        /\ SavedRecord.final_config = ToDict(config)
        /\ SavedRecord.optimizations = call.pass.optimizations
        /\ (FiredRules(call.stats) # <<>> => SavedRecord.optimizations # <<>>)

\* The last call was optimize_for_document (or its adjustment on a statistics
\* record): call.stats are the statistics, call.before the base config,
\* `returned` the adjusted config.
Adjusted == call.name = "optimize_for_document"

\* C3: the adjusted config has grid columns 3 and KPI min-height 100 when
\* kpi_count > 6; grid columns 1 and the base KPI min-height when
\* kpi_count <= 2 (0 included); the base grid columns and KPI min-height when
\* 3 <= kpi_count <= 6. At most one of the two branches applies: the
\* adjustment list never holds two grid descriptions.
C3_GridColumnsByKpiCount ==
    Adjusted =>
        LET n == call.stats.kpi_count IN
        /\ n > 6 => /\ returned.grid.columns = 3
                    /\ returned.kpi_card.min_height = 100
        /\ n <= 2 => /\ returned.grid.columns = 1
                     /\ returned.kpi_card.min_height = call.before.kpi_card.min_height
        /\ (3 <= n /\ n <= 6) =>
                /\ returned.grid.columns = call.before.grid.columns
                /\ returned.kpi_card.min_height = call.before.kpi_card.min_height
        /\ Len(SelectSeq(log_entry.optimizations,
                         LAMBDA e : e.rule = "grid_columns")) <= 1

\* Seven KPIs on a base of four columns.
C3_Witness ==
    /\ Adjusted
    /\ call.stats.kpi_count = 7
    /\ call.before.grid.columns = 4
    /\ returned.grid.columns = 3
    /\ returned.kpi_card.min_height = 100

\* C4: the adjusted KPI value font size is 28 for every
\* max_kpi_value_length > 10 (above 15 too) and the base value for every
\* length <= 10; it is 24 only when the base held 24 and the length is at
\* most 10.
C4_KpiFontSize ==
    Adjusted =>
        LET l == call.stats.max_kpi_value_length IN
        /\ l > 10 => returned.kpi_card.font_size_value = 28
        /\ l <= 10 => returned.kpi_card.font_size_value
                        = call.before.kpi_card.font_size_value
        /\ returned.kpi_card.font_size_value = 24 =>
                /\ call.before.kpi_card.font_size_value = 24
                /\ l <= 10

\* A 16-character value on the default base.
C4_Witness ==
    /\ Adjusted
    /\ call.stats.max_kpi_value_length = 16
    /\ call.before.kpi_card.font_size_value = 32
    /\ returned.kpi_card.font_size_value = 28

\* The nodes below a children list, in document order, nested sections
\* followed by their own nodes.
RECURSIVE NodesBelow(_)
NodesBelow(children) ==
    IF children = <<>> THEN <<>>
    ELSE LET child == Head(children) IN
         <<child>>
         \o (IF Get(child, "type", "None") = "section"
             THEN NodesBelow(Get(child, "children", <<>>)) ELSE <<>>)
         \o NodesBelow(Tail(children))

\* The nodes of a document that sit under a top-level section.
RECURSIVE NodesOfSections(_)
NodesOfSections(sections) ==
    IF sections = <<>> THEN <<>>
    ELSE NodesBelow(Get(Head(sections), "children", <<>>))
         \o NodesOfSections(Tail(sections))

NodesOf(document_ir) == NodesOfSections(Get(document_ir, "sections", <<>>))

NodesOfType(document_ir, type) ==
    SelectSeq(NodesOf(document_ir), LAMBDA nd : Get(nd, "type", "None") = type)

\* The largest of a sequence of numbers, 0 for none.
RECURSIVE LargestOf(_)
LargestOf(numbers) ==
    IF numbers = <<>> THEN 0 ELSE Max(Head(numbers), LargestOf(Tail(numbers)))

\* The sum of a sequence of numbers.
RECURSIVE SumOf(_)
SumOf(numbers) ==
    IF numbers = <<>> THEN 0 ELSE Head(numbers) + SumOf(Tail(numbers))

Measures(nodes, Measure(_)) == [i \in 1..Len(nodes) |-> Measure(nodes[i])]

Largest(nodes, Measure(_)) == LargestOf(Measures(nodes, Measure))

Total(nodes, Measure(_)) == SumOf(Measures(nodes, Measure))

TableColumns(nd) == Len(Get(nd, "headers", <<>>))

TableIsShrunk(table) ==
    /\ table.font_size_header = 11
    /\ table.font_size_body = 10
    /\ table.cell_padding = 8

\* C5: the adjusted table header font, body font and cell padding are 11, 10
\* and 8 when max_table_columns > 6 and the base values when it is <= 6 (so,
\* on a base that does not hold 11, 10 and 8 already, they are 11, 10 and 8
\* exactly when max_table_columns > 6); max_table_columns is the largest
\* header length over the tables of the document.
C5_TableShrink ==
    Adjusted =>
        LET c == call.stats.max_table_columns IN
        /\ c > 6 => TableIsShrunk(returned.table)
        /\ c <= 6 =>
                /\ returned.table.font_size_header = call.before.table.font_size_header
                /\ returned.table.font_size_body = call.before.table.font_size_body
                /\ returned.table.cell_padding = call.before.table.cell_padding
        /\ ~TableIsShrunk(call.before.table) =>
                (TableIsShrunk(returned.table) <=> c > 6)
        /\ call.document # NoDoc =>
                c = Largest(NodesOfType(call.document, "table"), TableColumns)

\* A document whose widest table has 7 columns, on a base with larger fonts.
C5_Witness ==
    /\ Adjusted
    /\ call.document # NoDoc
    /\ call.stats.max_table_columns = 7
    /\ call.before.table.font_size_header = 13
    /\ TableIsShrunk(returned.table)

\* A node that is long text by itself: a paragraph of more than 500
\* characters, or a callout of more than 200.
IsLongNode(nd) ==
    \/ Get(nd, "type", "None") = "paragraph" /\ Get(nd, "text", 0) > 500
    \/ Get(nd, "type", "None") = "callout" /\ Get(nd, "content", 0) > 200

HasLongNode(document_ir) ==
    \E i \in DOMAIN NodesOf(document_ir) : IsLongNode(NodesOf(document_ir)[i])

\* C6: optimize_for_document sets has_long_text, and with it page and callout
\* line height 1.8, exactly for a document that holds at any depth a paragraph
\* of more than 500 characters or a callout of more than 200; for any other
\* document both line heights are the base values, whatever the paragraphs
\* add up to.
C6_LongTextLineHeight ==
    Adjusted =>
        /\ call.stats.has_long_text =>
                /\ returned.page.line_height = 18
                /\ returned.callout.line_height = 18
        /\ ~call.stats.has_long_text =>
                /\ returned.page.line_height = call.before.page.line_height
                /\ returned.callout.line_height = call.before.callout.line_height
        /\ call.document # NoDoc =>
                (call.stats.has_long_text <=> HasLongNode(call.document))

\* A 501-character paragraph inside a nested section raises both line heights.
C6_Witness ==
    /\ Adjusted
    /\ call.document # NoDoc
    /\ \A i \in DOMAIN Get(call.document, "sections", <<>>) :
            \A j \in DOMAIN call.document.sections[i].children :
                ~IsLongNode(call.document.sections[i].children[j])
    /\ HasLongNode(call.document)
    /\ call.before.page.line_height = 16
    /\ returned.page.line_height = 18
    /\ returned.callout.line_height = 18

\* Paragraphs of 400 characters adding up to more than 500 leave the line
\* heights alone.
C6_CumulativeReached ==
    /\ Adjusted
    /\ call.document # NoDoc
    /\ call.stats.total_content_length > 500
    /\ ~call.stats.has_long_text
    /\ returned.page.line_height = 16

KpiItemCount(nd) == Len(Get(nd, "kpis", <<>>))

LongestValue(nd) ==
    LargestOf([i \in 1..KpiItemCount(nd) |->
                StrLen(Get(nd.kpis[i], "value", [str |-> 0]))])

TableRows(nd) == Len(Get(nd, "rows", <<>>))

\* C7: the statistics count every kpi_grid item, table, chart and callout
\* under a top-level section once, at any depth of nested sections, and the
\* maxima range over the same nodes; nodes of other types add nothing.
C7_CountsOverWholeTree ==
    (Adjusted /\ call.document # NoDoc) =>
        LET d == call.document IN
        /\ call.stats.kpi_count = Total(NodesOfType(d, "kpi_grid"), KpiItemCount)
        /\ call.stats.table_count = Len(NodesOfType(d, "table"))
        /\ call.stats.chart_count = Len(NodesOfType(d, "chart"))
        /\ call.stats.callout_count = Len(NodesOfType(d, "callout"))
        /\ call.stats.max_kpi_value_length
                = Largest(NodesOfType(d, "kpi_grid"), LongestValue)
        /\ call.stats.max_table_columns = Largest(NodesOfType(d, "table"), TableColumns)
        /\ call.stats.max_table_rows = Largest(NodesOfType(d, "table"), TableRows)

\* A table two nested sections below the top-level section is counted.
C7_Witness ==
    /\ Adjusted
    /\ call.document =
        [sections |-> <<[title |-> "s", children |-> <<
            [type |-> "section", children |-> <<
                [type |-> "section", children |-> <<
                    [type |-> "table", headers |-> Headers(7),
                     rows |-> Headers(2)]>>]>>]>>]>>]
    /\ call.stats.table_count = 1
    /\ call.stats.max_table_columns = 7

\* The file load_config last read.
LoadedFile == fs[loaded.path]

\* C8: load_config of a path that save_config wrote, with or without an
\* optimization record, returns an optimizer whose config equals the saved
\* optimizer's config in every field of the six sub-records and in the four
\* switches.
C8_SaveLoadRoundTrip ==
    (loaded # NoLoad /\ LoadedFile # NoFile /\ LoadedFile.writer = "save_config") =>
        /\ loaded.outcome = "loaded"
        /\ \A sub \in SubRecords :
                /\ DOMAIN loaded.config[sub] = DOMAIN LoadedFile.source[sub]
                /\ \A f \in DOMAIN LoadedFile.source[sub] :
                        loaded.config[sub][f] = LoadedFile.source[sub][f]
        /\ \A k \in Switches : loaded.config[k] = LoadedFile.source[k]

\* A caller-built config that a renderer pass adjusted, saved with its record
\* and loaded back.
C8_Witness ==
    /\ loaded # NoLoad
    /\ LoadedFile # NoFile
    /\ LoadedFile.writer = "save_config"
    /\ "optimization_log" \in DOMAIN LoadedFile.json
    /\ loaded.outcome = "loaded"
    /\ loaded.config.grid = [columns |-> 1, gap |-> 16, responsive_breakpoint |-> 600]
    /\ ~loaded.config.optimize_for_print

\* The config object of the file load_config last read, when it has one.
LoadedJsonConfig == LoadedFile.json.config

\* C9: load_config of a path with no file returns an optimizer holding the
\* default configuration and raises nothing; of a file whose config lacks one
\* of the six sub-records it raises and returns no optimizer; of a file with
\* all six sub-records and a switch left out it returns an optimizer whose
\* config has that switch true.
C9_LoadOutcomes ==
    loaded # NoLoad =>
        /\ loaded.outcome \in {"default", "loaded", "raised"}
        /\ LoadedFile = NoFile =>
                /\ loaded.outcome = "default"
                /\ loaded.error = "none"
                /\ loaded.config = CreateDefaultConfig
        /\ (LoadedFile # NoFile /\ "config" \in DOMAIN LoadedFile.json) =>
                /\ (\E sub \in SubRecords : sub \notin DOMAIN LoadedJsonConfig) =>
                        /\ loaded.outcome = "raised"
                        /\ loaded.error # "none"
                        /\ loaded.config = NoConfig
                /\ (SubRecords \subseteq DOMAIN LoadedJsonConfig) =>
                        \A k \in Switches \ DOMAIN LoadedJsonConfig :
                            /\ loaded.outcome = "loaded"
                            /\ loaded.config[k] = TRUE

\* A file of a config with every switch false, one switch left out: loaded,
\* that switch true, the others as written.
C9_Witness ==
    /\ loaded # NoLoad
    /\ LoadedFile # NoFile
    /\ "config" \in DOMAIN LoadedFile.json
    /\ SubRecords \subseteq DOMAIN LoadedJsonConfig
    /\ "optimize_for_print" \notin DOMAIN LoadedJsonConfig
    /\ loaded.outcome = "loaded"
    /\ loaded.config.optimize_for_print
    /\ ~loaded.config.auto_adjust_font_size

\* A file lacking one sub-record was read and the load raised.
C9_MissingSubRecordReached ==
    /\ loaded # NoLoad
    /\ LoadedFile # NoFile
    /\ "config" \in DOMAIN LoadedFile.json
    /\ "grid" \notin DOMAIN LoadedJsonConfig
    /\ loaded.outcome = "raised"

\* The fields of each sub-record that the rules firing for a statistics
\* record assign.
TouchedFields(stats) ==
    [sub \in SubRecords |->
        CASE sub = "kpi_card" ->
                (IF RuleFires("kpi_font", stats) THEN {"font_size_value"} ELSE {})
                \cup (IF stats.kpi_count > 6 THEN {"min_height"} ELSE {})
          [] sub = "grid" ->
                IF RuleFires("grid_columns", stats) THEN {"columns"} ELSE {}
          [] sub = "table" ->
                IF RuleFires("table_shrink", stats)
                THEN {"font_size_header", "font_size_body", "cell_padding"} ELSE {}
          [] sub \in {"page", "callout"} ->
                IF RuleFires("long_text", stats) THEN {"line_height"} ELSE {}
          [] OTHER -> {}]

\* C10: an optimize_for_document call leaves every field of the optimizer's
\* own config as it was, and so does a later assignment to a field of the
\* config it returned; the returned config equals the base in the four
\* switches and in every field that no fired rule assigns.
C10_BaseConfigUntouched ==
    /\ call.name \in {"optimize_for_document", "mutate_returned"} =>
            config = call.before
    /\ call.name = "optimize_for_document" =>
        /\ shared = {}
        /\ \A k \in Switches : returned[k] = call.before[k]
        /\ \A sub \in SubRecords :
                \A f \in DOMAIN call.before[sub] \ TouchedFields(call.stats)[sub] :
                    returned[sub][f] = call.before[sub][f]

\* The caller set grid columns to 5 on a returned config; the optimizer's own
\* config keeps its columns.
C10_Witness ==
    /\ call.name = "mutate_returned"
    /\ returned.grid.columns = 5
    /\ returned.table.font_size_header = 11
    /\ config.grid.columns = 2
    /\ config.table.font_size_header = 13

\* The fields of each sub-record that hold a number.
NumericFields(sub) == DOMAIN ClassDefaults[sub] \ StringFields

\* A config is well formed: its six sub-records are there with all their
\* fields, every numeric field is positive, and the overflow strategy is one
\* of the two the stylesheet knows.
WellFormed(cfg) ==
    /\ SubRecords \subseteq DOMAIN cfg
    /\ \A sub \in SubRecords :
        /\ DOMAIN cfg[sub] = DOMAIN ClassDefaults[sub]
        /\ \A f \in NumericFields(sub) : cfg[sub][f] > 0
    /\ cfg.table.overflow_strategy \in {"wrap", "ellipsis"}

\* The optimizer load_config returned, if it returned one.
LoadReturned == loaded # NoLoad /\ loaded.outcome \in {"default", "loaded"}

\* C11: every config an optimizer holds or returns -- the one it was
\* constructed with, the one optimize_for_document returns, the one of the
\* optimizer load_config returns for an existing file -- has all its numeric
\* fields positive, overflow_strategy in {wrap, ellipsis} and its six
\* sub-records populated.
C11_ConfigsWellFormed ==
    /\ WellFormed(config)
    /\ returned # NoConfig => WellFormed(returned)
    /\ LoadReturned => WellFormed(loaded.config)

\* The part of C11 that the code keeps: the optimizer's own config and the
\* configs of loads that read a file written by save_config (or no file).
C11_WellFormedUnlessExternalFile ==
    /\ WellFormed(config)
    /\ returned # NoConfig => WellFormed(returned)
    /\ (LoadReturned /\ fs[loaded.path] # NoFile
            /\ fs[loaded.path].writer = "save_config")
        => WellFormed(loaded.config)
    /\ (LoadReturned /\ fs[loaded.path] = NoFile) => WellFormed(loaded.config)

\* A load of an existing external file returned an optimizer whose config has
\* all six sub-records (a left-out field is filled by the dataclass default).
C11_ExternalLoadPopulated ==
    (LoadReturned /\ loaded.outcome = "loaded")
        => \A sub \in SubRecords :
              /\ sub \in DOMAIN loaded.config
              /\ DOMAIN loaded.config[sub] = DOMAIN ClassDefaults[sub]

\* The last operation was an optimizing pass of the renderer.
OptimizingPass ==
    call.name = "_get_pdf_html" /\ call.optimize_layout

\* The config a fresh renderer, constructed with the same config, computes for
\* the document of the last pass when it is the first one rendered.
FreshPassConfig ==
    OptimizeForDocumentResult(initial_config, <<>>, call.document,
                              call.log_file).config

\* C12: no hidden state carries across the optimizing passes of one renderer:
\* after any pass, the config computed for the document and the stylesheet
\* generated from it are those a fresh renderer with the same initial config
\* computes for that document (a 4-KPI document gets 2 grid columns under the
\* default config even after a 7-KPI document).
C12_NoHiddenStateAcrossPasses ==
    OptimizingPass =>
        /\ config = FreshPassConfig
        /\ call.css = GeneratePdfCss(FreshPassConfig)

\* What the code keeps: a pass computes its config from the config the
\* optimizer held before the pass, so a pass that starts from the initial
\* config agrees with the fresh renderer.
C12_PassFromInitialConfig ==
    (OptimizingPass /\ call.before = initial_config) =>
        /\ config = FreshPassConfig
        /\ call.css = GeneratePdfCss(FreshPassConfig)

\* The 4-KPI document rendered by a renderer constructed with the default
\* config, the grid left at 3 columns by an earlier pass.
C12_FourKpiKeepsThreeColumns ==
    /\ OptimizingPass
    /\ initial_config = CreateDefaultConfig
    /\ call.document = FourKpiDocument
    /\ config.grid.columns = 3
    /\ FreshPassConfig.grid.columns = 2

====
